---- MODULE Spec2Model ----
(***************************************************************************)
(* A model of llmfoundry/data/packing.py: the BinPackCollator (trim,       *)
(* first-fit bin packing with carried-over leftover bins, re-padding) and   *)
(* auto_packing_ratio / profile_packing.                                    *)
(*                                                                          *)
(* A tensor is a sequence of integers, an example a function from field     *)
(* names to tensors, a bin a record [size, ex] (the tuple (bin_size,        *)
(* packed_example) of the source).  A Python exception is the name of its   *)
(* class ("" when nothing was raised).                                      *)
(***************************************************************************)
EXTENDS Integers, Sequences, FiniteSets, TLC

\* ------------------------------------------------------------------ bounds
MaxCalls == 2
MaxItems == 2
MaxSeqLen == 2
MaxOutSize == 2
MaxKeep == 1
\* auto_packing_ratio: the workers of a distributed run, the documents of a
\* profiling sample, num_packing_ratios and device_batch_size
MaxWorkers == 2
MaxSample == 4
MaxNumRatios == 3
MaxDeviceBatch == 2
\* the functions taken one at a time: the rows of a batch and the examples
\* merged into one bin
MaxRows == 3
\* the engine taken on its own: num_bins, the bins it is given and its items
MaxBins == 3
MaxExisting == 2
MaxEngineItems == 4

\* --------------------------------------------------------------- constants
CROSS_ENTROPY_IGNORE_INDEX == -100
SEQUENCE_ID_PAD == -1
ATTENTION_MASK_PAD == 0

VARIABLES
    cfg,                \* the collator's constructor arguments (never change)
    has_labels,         \* whether the base collator emits a labels field
    n_packed_tokens,    \* self.n_packed_tokens
    n_total_tokens,     \* self.n_total_tokens
    n_packed_examples,  \* self.n_packed_examples
    leftover_bins,      \* self._leftover_bins
    pre,                \* history: the collator's state before the last call
    last,               \* history: what the last call did
    ret,                \* what the last call returned
    calls,              \* number of calls made so far
    returned,           \* history: number of calls that returned
    dropped,            \* history: tokens of the bins line 141 cut off so far
    stray,              \* history: tokens that calls which raised inside the
                        \* engine left on self._leftover_bins, less those
                        \* they took off it
    acfg,               \* the arguments and environment of auto_packing_ratio
    apc,                \* per worker: where its auto_packing_ratio call is
    rng,                \* per worker: the global RNG state of its process
    outcomes,           \* what the call may do, over the samples it may read
    local,              \* per worker: what its walk over the candidates did
    result,             \* per worker: the value returned (<<>> when none)
    raised,             \* per worker: the exception raised ("" when none)
    did,                \* per worker: history of the calls it made
    unit,               \* a function of the module and the arguments it gets
    out                 \* what that function did (<<>> before it is applied)

collatorVars == <<cfg, has_labels, n_packed_tokens, n_total_tokens,
                  n_packed_examples, leftover_bins, pre, last, ret, calls,
                  returned, dropped, stray>>

autoVars == <<acfg, outcomes, apc, rng, local, result, raised, did>>

unitVars == <<unit, out>>

vars == <<collatorVars, autoVars, unitVars>>

\* ----------------------------------------------------------------- helpers
Max(a, b) == IF a >= b THEN a ELSE b

Min(a, b) == IF a <= b THEN a ELSE b

SetMin(S) == CHOOSE x \in S : \A y \in S : x <= y

RECURSIVE SumSeq(_)
SumSeq(s) == IF s = <<>> THEN 0 ELSE Head(s) + SumSeq(Tail(s))

RECURSIVE SeqMax(_)
SeqMax(s) == IF Len(s) = 1 THEN s[1] ELSE Max(Head(s), SeqMax(Tail(s)))

Fill(n, v) == [k \in 1..n |-> v]

Prefix(s, n) == SubSeq(s, 1, Min(n, Len(s)))

Suffix(s, n) == SubSeq(s, Min(n, Len(s)) + 1, Len(s))

RemoveAt(s, k) == SubSeq(s, 1, k - 1) \o SubSeq(s, k + 1, Len(s))

BinSizes(bins) == [k \in 1..Len(bins) |-> bins[k].size]

BinExamples(bins) == [k \in 1..Len(bins) |-> bins[k].ex]

\* sum([bin_size for bin_size, _ in bins])
TotalBinSizes(bins) == SumSeq(BinSizes(bins))

\* sorted(..., key=lambda x: x[0], reverse=True): Python's sort is stable, also
\* with reverse=True, so equal sizes keep their original relative order.
RECURSIVE SortedDesc(_)
\* a variant that leaves the list in the order it came in
InsertLast(x, s) == Append(s, x)

InsertDesc(x, s) ==
    LET before == {k \in 1..Len(s) : s[k].size >= x.size}
        n == Cardinality(before)
    IN  SubSeq(s, 1, n) \o <<x>> \o SubSeq(s, n + 1, Len(s))

SortedDesc(s) ==
    IF s = <<>> THEN <<>>
    ELSE InsertDesc(s[Len(s)], SortedDesc(SubSeq(s, 1, Len(s) - 1)))

\* ------------------------------------------------------------ pad and trim
PAD_VALS(pad_token_id) ==
    [input_ids |-> pad_token_id, labels |-> CROSS_ENTROPY_IGNORE_INDEX,
     attention_mask |-> ATTENTION_MASK_PAD, sequence_id |-> SEQUENCE_ID_PAD]

\* _pad_tensor: [err, val].  t[-len(tensor):] = tensor and t[:len(tensor)] =
\* tensor copy a tensor into a slice of t; torch raises RuntimeError when the
\* two lengths differ, which happens for a tensor longer than max_seq_len and,
\* on the left side, for an empty tensor (t[-0:] is the whole of t).
LeftSlice(tensor, pad_value, max_seq_len) ==
    IF Len(tensor) = 0 \/ Len(tensor) > max_seq_len
    THEN [err |-> "RuntimeError", val |-> <<>>]
    ELSE [err |-> "", val |-> Fill(max_seq_len - Len(tensor), pad_value) \o tensor]

RightSlice(tensor, pad_value, max_seq_len) ==
    IF Len(tensor) > max_seq_len
    THEN [err |-> "RuntimeError", val |-> <<>>]
    ELSE [err |-> "", val |-> tensor \o Fill(max_seq_len - Len(tensor), pad_value)]

\* a variant that tests the side before the length
PadChecksSideFirst(tensor, pad_value, max_seq_len, padding_side) ==
    IF padding_side \notin {"left", "right"}
    THEN [err |-> "ValueError", val |-> <<>>]
    ELSE IF Len(tensor) = max_seq_len THEN [err |-> "", val |-> tensor]
    ELSE IF padding_side = "left" THEN LeftSlice(tensor, pad_value, max_seq_len)
    ELSE RightSlice(tensor, pad_value, max_seq_len)

_pad_tensor(tensor, pad_value, max_seq_len, padding_side) ==
    IF Len(tensor) = max_seq_len THEN [err |-> "", val |-> tensor]
    ELSE IF padding_side = "left" THEN LeftSlice(tensor, pad_value, max_seq_len)
    ELSE IF padding_side = "right" THEN RightSlice(tensor, pad_value, max_seq_len)
    ELSE [err |-> "ValueError", val |-> <<>>]

\* v[keep]: the entries of v at the positions where keep is TRUE
RECURSIVE MaskSelect(_, _)
MaskSelect(v, keep) ==
    IF v = <<>> THEN <<>>
    ELSE (IF Head(keep) THEN <<Head(v)>> ELSE <<>>)
         \o MaskSelect(Tail(v), Tail(keep))

\* _extract_trim_batch_idx on one row of the batch: (size, trim_example)
_extract_trim_batch_idx(example) ==
    LET keep == [k \in 1..Len(example.attention_mask) |->
                    example.attention_mask[k] = 1]
        kept == [f \in DOMAIN example |-> MaskSelect(example[f], keep)]
        size == Len(MaskSelect(example.attention_mask, keep))
    IN  [size |-> size,
         ex |-> [f \in (DOMAIN example) \cup {"sequence_id"} |->
                    IF f = "sequence_id" THEN Fill(Len(kept.input_ids), 0)
                    ELSE kept[f]]]

\* _trim_batch: the batch is the sequence of its rows
_trim_batch(batch) ==
    [k \in 1..Len(batch) |-> _extract_trim_batch_idx(batch[k])]

\* ----------------------------------------------------------------- combine
\* _combine_in_place: [err, val].  add_on['labels'][0] = ... raises IndexError
\* on an empty tensor, add_on[k] raises KeyError for a field add_on lacks, and
\* torch.max raises RuntimeError on an empty tensor.
\* a variant that leaves add_on out of the merged example
CombineDropsAddOn(k, example, add_on) == example[k]

\* a variant that leaves the first label of add_on as it is
CombineKeepsLabel(k, example, add_on) ==
    IF k = "sequence_id"
    THEN example[k] \o [j \in 1..Len(add_on[k]) |->
                            add_on[k][j] + 1 + SeqMax(example[k])]
    ELSE example[k] \o add_on[k]

CombineField(k, example, add_on) ==
    IF k = "sequence_id"
    THEN example[k] \o [j \in 1..Len(add_on[k]) |->
                            add_on[k][j] + 1 + SeqMax(example[k])]
    ELSE IF k = "labels"
    THEN example[k] \o [j \in 1..Len(add_on[k]) |->
                            IF j = 1 THEN CROSS_ENTROPY_IGNORE_INDEX
                            ELSE add_on[k][j]]
    ELSE example[k] \o add_on[k]

_combine_in_place(example, add_on) ==
    IF "labels" \in DOMAIN add_on /\ Len(add_on["labels"]) = 0
    THEN [err |-> "IndexError", val |-> example]
    ELSE IF \E k \in DOMAIN example : k \notin DOMAIN add_on
    THEN [err |-> "KeyError", val |-> example]
    ELSE IF "sequence_id" \in DOMAIN example /\ Len(example["sequence_id"]) = 0
    THEN [err |-> "RuntimeError", val |-> example]
    ELSE [err |-> "",
          val |-> [k \in DOMAIN example |-> CombineField(k, example, add_on)]]

\* ------------------------------------------------------------------ engine
\* a variant that reserves no bin for the items still to come
RequiredNoReserve(num_bins, bins) == 0

\* a variant that reserves one bin fewer
RequiredOneLess(num_bins, bins) == Max(0, num_bins - Len(bins) - 1)

\* a variant that reads the collator's counter besides its arguments
RequiredLessPacked(num_bins, bins) ==
    Max(0, num_bins - Len(bins) - n_packed_examples)

\* max(0, num_bins - len(bins))
RequiredNumExamples(num_bins, bins) == Max(0, num_bins - Len(bins))

\* a variant that looks at the bin alone, not at the item it is to take
FitsIgnoringItem(bin_size, size, max_bin_size) == bin_size <= max_bin_size

\* a variant that never fills a bin to the brim
FitsStrictly(bin_size, size, max_bin_size) == bin_size + size < max_bin_size

\* bins[bidx][0] + size <= max_bin_size
Fits(bin_size, size, max_bin_size) == bin_size + size <= max_bin_size

\* a variant that forgets what the bin already held
GrownForgetsBin(bin_size, size) == size

\* bin_size = bin_size + size
GrownBinSize(bin_size, size) == bin_size + size

\* a variant that takes the last bin with room
LastFit(bins, size, max_bin_size) ==
    LET fit == {b \in 1..Len(bins) : Fits(bins[b].size, size, max_bin_size)}
    IN  IF fit = {} THEN 0 ELSE CHOOSE b \in fit : \A o \in fit : b >= o

\* the first bidx of range(len(bins)) whose bin has room, 0 when none has
FirstFit(bins, size, max_bin_size) ==
    LET fit == {b \in 1..Len(bins) : Fits(bins[b].size, size, max_bin_size)}
    IN  IF fit = {} THEN 0 ELSE SetMin(fit)

\* One iteration of the item loop (lines 227-256) on the list bins:
\* [err, bins], bins being the list as the iteration leaves it.
PlaceItem(bins, item, n_remaining, num_bins, max_bin_size, is_profiling) ==
    LET required == RequiredNumExamples(num_bins, bins)
        bidx == FirstFit(bins, item.size, max_bin_size)
    IN  IF n_remaining < required
        THEN [err |-> "AssertionError(n_remaining)", bins |-> bins]
        ELSE IF n_remaining = required \/ bidx = 0
        THEN [err |-> "", bins |-> Append(bins, item)]
        ELSE LET popped == RemoveAt(bins, bidx)
                 merged == IF is_profiling
                           THEN [err |-> "", val |-> bins[bidx].ex]
                           ELSE _combine_in_place(bins[bidx].ex, item.ex)
             IN  IF merged.err # ""
                 THEN [err |-> merged.err, bins |-> popped]
                 ELSE [err |-> "",
                       bins |-> Append(popped,
                           [size |-> GrownBinSize(bins[bidx].size, item.size),
                            ex |-> merged.val])]

\* a variant of the fast exit's loop that leaves the largest item out
AppendAllButFirst(bins, sorted_items) == bins \o Tail(sorted_items)

\* the fast exit's loop (lines 198-200): every item gets its own bin
AppendAll(bins, sorted_items) == bins \o sorted_items

\* sorted_bins[:num_bins] and sorted_bins[num_bins:]
SelectedBins(sorted_bins, num_bins) == Prefix(sorted_bins, num_bins)

\* a variant of the leftover slice that starts one bin too late
LeftoverSkipsOne(sorted_bins, num_bins) == Suffix(sorted_bins, num_bins + 1)

LeftoverOf(sorted_bins, num_bins) == Suffix(sorted_bins, num_bins)

\* The item loop (lines 227-256) from its iteration i on (i counts from 0, as
\* enumerate does): [err, bins, trace], bins the list as the loop leaves it
\* (by its end or by an exception) and trace the bin sizes after each
\* iteration.
PrependTrace(sizes, run) == [run EXCEPT !.trace = <<sizes>> \o @]

RECURSIVE RunLoop(_, _, _, _, _, _)
RECURSIVE AfterPlace(_, _, _, _, _, _)
AfterPlace(r, sorted_items, i, num_bins, max_bin_size, is_profiling) ==
    IF r.err # ""
    THEN [err |-> r.err, bins |-> r.bins, trace |-> <<BinSizes(r.bins)>>]
    ELSE PrependTrace(BinSizes(r.bins),
                      RunLoop(r.bins, sorted_items, i + 1, num_bins,
                              max_bin_size, is_profiling))

RunLoop(bins, sorted_items, i, num_bins, max_bin_size, is_profiling) ==
    IF i = Len(sorted_items) THEN [err |-> "", bins |-> bins, trace |-> <<>>]
    ELSE AfterPlace(PlaceItem(bins, sorted_items[i + 1], Len(sorted_items) - i,
                              num_bins, max_bin_size, is_profiling),
                    sorted_items, i, num_bins, max_bin_size, is_profiling)

\* The tail of _first_fit_bin_packing (lines 202-223 and 258-279) on the final
\* list bins: the consistency check, the sort and the four returned values.
EngineResult(bins, sizes, start_total, num_bins) ==
    LET total_new_bin_sizes == TotalBinSizes(bins) - start_total
        sorted_bins == SortedDesc(bins)
        selected == SelectedBins(sorted_bins, num_bins)
    IN  [err |-> IF total_new_bin_sizes # SumSeq(sizes)
                 THEN "AssertionError(Error in packing)" ELSE "",
         packed_examples |-> BinExamples(selected),
         selected_sizes |-> BinSizes(selected),
         n_packed_tokens |-> TotalBinSizes(selected),
         n_total_tokens |-> SumSeq(sizes),
         leftover_bins |-> LeftoverOf(sorted_bins, num_bins)]

\* leftover_bins[:self.max_leftover_bins_to_keep]; the Optional[int] is <<>>
\* for None and <<k>> for the integer k
KeptLeftovers(engine_leftovers, max_leftover_bins_to_keep) ==
    IF max_leftover_bins_to_keep = <<>> THEN engine_leftovers
    ELSE Prefix(engine_leftovers, max_leftover_bins_to_keep[1])

\* _convert_to_batch: [err, val], val the batch as the sequence of its rows.
\* packed_examples[0] raises IndexError on an empty list, example[key]
\* KeyError for a field a later example lacks.
PaddedRows(packed_examples, keys, c) ==
    [k \in 1..Len(packed_examples) |->
        [f \in keys |-> _pad_tensor(packed_examples[k][f],
                                    PAD_VALS(c.pad_token_id)[f],
                                    c.max_seq_len, c.padding_side)]]

PadErrors(rows, keys) ==
    {rows[k][f].err : k \in 1..Len(rows), f \in keys} \ {""}

StackRows(rows, keys) ==
    IF PadErrors(rows, keys) # {}
    THEN [err |-> CHOOSE e \in PadErrors(rows, keys) : TRUE, val |-> <<>>]
    ELSE [err |-> "",
          val |-> [k \in 1..Len(rows) |-> [f \in keys |-> rows[k][f].val]]]

_convert_to_batch(packed_examples, c) ==
    IF packed_examples = <<>> THEN [err |-> "IndexError", val |-> <<>>]
    ELSE IF \E k \in 1..Len(packed_examples) :
                \E f \in DOMAIN packed_examples[1] :
                    f \notin DOMAIN packed_examples[k]
    THEN [err |-> "KeyError", val |-> <<>>]
    ELSE StackRows(PaddedRows(packed_examples, DOMAIN packed_examples[1], c),
                   DOMAIN packed_examples[1])

\* _first_fit_bin_packing on the (size, example) pairs items.  bins is
\* existing_bins itself (line 184), so the field bins is also the caller's
\* list as the call leaves it; trace lists the bin sizes of that list at the
\* start and after every iteration.
_first_fit_bin_packing(items, num_bins, max_bin_size, existing_bins, is_profiling) ==
    LET sorted_items == SortedDesc(items)
        fast == Len(items) < RequiredNumExamples(num_bins, existing_bins)
        run == IF fast
               THEN [err |-> "", bins |-> AppendAll(existing_bins, sorted_items),
                     trace |-> <<BinSizes(AppendAll(existing_bins, sorted_items))>>]
               ELSE RunLoop(existing_bins, sorted_items, 0, num_bins,
                            max_bin_size, is_profiling)
        e == EngineResult(run.bins, BinSizes(items),
                          TotalBinSizes(existing_bins), num_bins)
    IN  [err |-> IF run.err # "" THEN run.err ELSE e.err,
         path |-> IF fast THEN "fast_exit" ELSE "general",
         bins |-> run.bins,
         trace |-> <<BinSizes(existing_bins)>> \o run.trace,
         packed_examples |-> e.packed_examples,
         selected_sizes |-> e.selected_sizes,
         n_packed_tokens |-> e.n_packed_tokens,
         n_total_tokens |-> e.n_total_tokens,
         leftover_bins |-> e.leftover_bins]

\* ------------------------------------------------------ batches (the input)
\* Row j of a batch of the base collator, for a document of s tokens: s real
\* tokens and max_seq_len - s pad positions on the collator's padding side.
\* Every token (and label) of row j is j, so a packed example shows which
\* rows it holds.
FieldsOf(with_labels) ==
    {"input_ids", "attention_mask"} \cup (IF with_labels THEN {"labels"} ELSE {})

PadValueOf(f, c) ==
    IF f \in DOMAIN PAD_VALS(c.pad_token_id) THEN PAD_VALS(c.pad_token_id)[f]
    ELSE 0

RowField(f, j, s, c) ==
    LET real == Fill(s, IF f = "attention_mask" THEN 1 ELSE j)
        pad == Fill(c.max_seq_len - s, PadValueOf(f, c))
    IN  IF c.padding_side = "left" THEN pad \o real ELSE real \o pad

MakeBatch(sz, fields, c) ==
    [j \in 1..Len(sz) |-> [f \in fields |-> RowField(f, j, sz[j], c)]]

\* The lists of at least lo and at most hi sizes, each in 0..max_seq_len, in
\* non-decreasing order.  The engine sorts the items by size before anything
\* else, so the order of the rows decides only the order among rows of equal
\* size, and every batch is one of these up to the numbering of its rows.
SizeLists(lo, hi, max_seq_len) ==
    UNION {{sz \in [1..n -> 0..max_seq_len] :
               \A k \in 1..(n - 1) : sz[k] <= sz[k + 1]} : n \in lo..hi}

\* --------------------------------------------------------------- collator
NoBatch == [none |-> TRUE, batch |-> <<>>]

\* What a call did.  entry is the method called ("pack" or
\* "_pack_trimmed_examples"); outcome is "none" (no call yet), "returned" or
\* "raised"; stage is where the call ended ("validation", "engine", "convert"
\* or "done"); path is the engine's path ("fast_exit" or "general"); sizes
\* is the engine's argument; trace and the other sizes are the engine's.
NoCall ==
    [entry |-> "", outcome |-> "none", err |-> "", stage |-> "", path |-> "",
     n_items |-> 0, sizes |-> <<>>, input_sum |-> 0, trace |-> <<>>,
     selected_sizes |-> <<>>, engine_leftover_sizes |-> <<>>, dropped_sum |-> 0]

\* a variant that returns the share of the tokens that were packed
WasteOfPacked(st) ==
    IF st.n_total_tokens = 0
    THEN [err |-> "ZeroDivisionError", num |-> 0, den |-> 1]
    ELSE [err |-> "", num |-> st.n_packed_tokens, den |-> st.n_total_tokens]

\* the property waste (lines 77-79) on the collator state st, as the exact
\* fraction num / den: [err, num, den]; 0 / 0 raises ZeroDivisionError
waste(st) ==
    IF st.n_total_tokens = 0
    THEN [err |-> "ZeroDivisionError", num |-> 0, den |-> 1]
    ELSE [err |-> "", num |-> st.n_total_tokens - st.n_packed_tokens,
          den |-> st.n_total_tokens]

\* the collator's mutable state
Snapshot ==
    [leftover_bins |-> leftover_bins, n_packed_tokens |-> n_packed_tokens,
     n_total_tokens |-> n_total_tokens, n_packed_examples |-> n_packed_examples]

\* _pack_trimmed_examples on the collator state st: [st, ret, call], st the
\* state the call leaves.  An exception in the engine leaves the counters
\* alone and self._leftover_bins as the engine left that list; one in
\* _convert_to_batch comes after lines 138-141.
_pack_trimmed_examples(st, trimmed, c) ==
    LET e == _first_fit_bin_packing(trimmed, c.out_size, c.max_seq_len,
                                    st.leftover_bins, c.is_profiling)
        kept == KeptLeftovers(e.leftover_bins, c.max_leftover_bins_to_keep)
        conv == IF c.is_profiling THEN [err |-> "", val |-> <<>>]
                ELSE _convert_to_batch(e.packed_examples, c)
    IN  IF e.err # ""
        THEN [st |-> [st EXCEPT !.leftover_bins = e.bins],
              ret |-> NoBatch,
              call |-> [NoCall EXCEPT !.entry = "_pack_trimmed_examples",
                                      !.outcome = "raised", !.err = e.err,
                                      !.stage = "engine", !.path = e.path,
                                      !.n_items = Len(trimmed),
                                      !.sizes = BinSizes(trimmed),
                                      !.input_sum = e.n_total_tokens,
                                      !.trace = e.trace]]
        ELSE [st |-> [leftover_bins |-> kept,
                      n_packed_tokens |-> st.n_packed_tokens + e.n_packed_tokens,
                      n_total_tokens |-> st.n_total_tokens + e.n_total_tokens,
                      n_packed_examples |-> st.n_packed_examples + c.out_size],
              ret |-> IF c.is_profiling \/ conv.err # "" THEN NoBatch
                      ELSE [none |-> FALSE, batch |-> conv.val],
              call |-> [entry |-> "_pack_trimmed_examples",
                        outcome |-> IF conv.err = "" THEN "returned" ELSE "raised",
                        err |-> conv.err,
                        stage |-> IF conv.err = "" THEN "done" ELSE "convert",
                        path |-> e.path,
                        n_items |-> Len(trimmed),
                        sizes |-> BinSizes(trimmed),
                        input_sum |-> e.n_total_tokens,
                        trace |-> e.trace,
                        selected_sizes |-> e.selected_sizes,
                        engine_leftover_sizes |-> BinSizes(e.leftover_bins),
                        dropped_sum |-> TotalBinSizes(e.leftover_bins)
                                        - TotalBinSizes(kept)]]

\* pack's checks of the batch's fields (lines 98-107)
ValidFields(fields) ==
    /\ "attention_mask" \in fields
    /\ "input_ids" \in fields
    /\ fields \subseteq {"input_ids", "labels", "attention_mask", "sequence_id"}

\* a call r that was made through pack
ThroughPack(r) == [r EXCEPT !.call.entry = "pack"]

\* a variant of the checks without the mode check of lines 95-96
RejectsFieldsOnly(fields, c) ==
    IF ~ValidFields(fields) THEN "AssertionError(fields)" ELSE ""

\* pack's checks of lines 95-107: the exception they raise, "" when none
PackRejects(fields, c) ==
    IF c.is_profiling THEN "ValueError"
    ELSE IF ~ValidFields(fields) THEN "AssertionError(fields)"
    ELSE ""

\* BinPackCollator.pack on a batch (of at least one row)
pack(st, batch, c) ==
    IF PackRejects(DOMAIN batch[1], c) # ""
    THEN [st |-> st, ret |-> NoBatch,
          call |-> [NoCall EXCEPT !.entry = "pack", !.outcome = "raised",
                                  !.err = PackRejects(DOMAIN batch[1], c),
                                  !.stage = "validation"]]
    ELSE ThroughPack(_pack_trimmed_examples(st, _trim_batch(batch), c))

\* BinPackCollator.__call__ on examples the base collator turns into the
\* batch of rows of sizes sz (lines 91-92)
__call__(st, sz, with_labels, c) ==
    pack(st, MakeBatch(sz, FieldsOf(with_labels), c), c)

\* BinPackCollator.__init__ with valid arguments; profile() builds its
\* profiling collators with padding_side='left' (line 562)
Configs ==
    {c \in [out_size : {1, MaxOutSize},
            max_seq_len : {MaxSeqLen},
            pad_token_id : {0},
            padding_side : {"left", "right"},
            max_leftover_bins_to_keep : {<<>>, <<0>>, <<MaxKeep>>},
            is_profiling : BOOLEAN] :
        c.is_profiling => c.padding_side = "left"}

\* no function under observation on its own
UnitIdle ==
    /\ unit = <<>>
    /\ out = <<>>

CollatorInit ==
    /\ cfg \in Configs
    /\ has_labels \in BOOLEAN
    /\ n_packed_tokens = 0
    /\ n_total_tokens = 0
    /\ n_packed_examples = 0
    /\ leftover_bins = <<>>
    /\ pre = [leftover_bins |-> <<>>, n_packed_tokens |-> 0,
              n_total_tokens |-> 0, n_packed_examples |-> 0]
    /\ last = NoCall
    /\ ret = NoBatch
    /\ calls = 0
    /\ returned = 0
    /\ dropped = 0
    /\ stray = 0

\* no collator under observation (auto_packing_ratio builds its own, inside
\* profile)
CollatorIdle ==
    /\ cfg = <<>>
    /\ has_labels = FALSE
    /\ n_packed_tokens = 0
    /\ n_total_tokens = 0
    /\ n_packed_examples = 0
    /\ leftover_bins = <<>>
    /\ pre = <<>>
    /\ last = NoCall
    /\ ret = NoBatch
    /\ calls = 0
    /\ returned = 0
    /\ dropped = 0
    /\ stray = 0

\* a call with result r = [st, ret, call] takes the collator to r.st; calls
\* come one after the other
Call(r) ==
    /\ calls < MaxCalls
    /\ last.outcome = "none"
    /\ calls' = calls + 1
    /\ pre' = Snapshot
    /\ leftover_bins' = r.st.leftover_bins
    /\ n_packed_tokens' = r.st.n_packed_tokens
    /\ n_total_tokens' = r.st.n_total_tokens
    /\ n_packed_examples' = r.st.n_packed_examples
    /\ last' = r.call
    /\ ret' = r.ret
    /\ returned' = returned + (IF r.call.outcome = "returned" THEN 1 ELSE 0)
    /\ dropped' = dropped + r.call.dropped_sum
    /\ stray' = stray + (IF r.call.stage = "engine"
                         THEN TotalBinSizes(r.st.leftover_bins)
                                  - TotalBinSizes(leftover_bins)
                         ELSE 0)
    /\ UNCHANGED <<cfg, has_labels>>
    /\ UNCHANGED <<autoVars, unitVars>>

\* the field sets a batch may come with, besides the base collator's own: two
\* that pack rejects
BadFields == {{"input_ids"}, {"input_ids", "attention_mask", "token_type_ids"}}

\* __call__ on examples: pack on the batch of the base collator
PackValid ==
    /\ calls < MaxCalls
    /\ last.outcome = "none"
    /\ \E sz \in SizeLists(1, MaxItems, cfg.max_seq_len) :
          \E r \in {__call__(Snapshot, sz, has_labels, cfg)} : Call(r)

\* pack called directly, on a batch with a field missing or unknown
PackInvalid ==
    /\ calls < MaxCalls
    /\ last.outcome = "none"
    /\ \E fields \in BadFields :
          \E r \in {pack(Snapshot, MakeBatch(<<1>>, fields, cfg), cfg)} : Call(r)

\* profile() feeding a profiling collator one slice of the sample through
\* _pack_trimmed_examples (lines 568-575); slices shorter than
\* device_batch_size are skipped
Profile ==
    /\ cfg.is_profiling
    /\ calls < MaxCalls
    /\ last.outcome = "none"
    /\ \E sz \in SizeLists(cfg.out_size, MaxItems, cfg.max_seq_len) :
          \E r \in {_pack_trimmed_examples(
                        Snapshot,
                        _trim_batch(MakeBatch(sz, FieldsOf(has_labels), cfg)),
                        cfg)} : Call(r)

\* The caller is done with what the call returned or raised, as profile()'s
\* loop is after each _pack_trimmed_examples (lines 568-575): the collator
\* keeps its own state and nothing else of the call remains.  The next call
\* starts from there.
Done ==
    /\ last.outcome # "none"
    /\ pre' = Snapshot
    /\ last' = NoCall
    /\ ret' = NoBatch
    /\ UNCHANGED <<cfg, has_labels, n_packed_tokens, n_total_tokens,
                   n_packed_examples, leftover_bins, calls, returned,
                   dropped, stray>>
    /\ UNCHANGED <<autoVars, unitVars>>

\* ------------------------------------------------ profile_packing: the grid
\* A packing ratio is held in tenths (np.round(10 * r) / 10 makes every
\* candidate a multiple of 0.1) and max_ratio in hundredths (max_seq_len / 100
\* is a multiple of 0.01).

\* np.round of the rational p / q (p >= 0, q > 0): the nearest integer, and
\* the even one of the two when they are equally near
RoundHalfEven(p, q) ==
    IF 2 * (p % q) < q THEN p \div q
    ELSE IF 2 * (p % q) > q THEN (p \div q) + 1
    ELSE IF (p \div q) % 2 = 0 THEN p \div q
    ELSE (p \div q) + 1

\* np.round(10 * np.linspace(min_ratio, max_ratio, num)[i]), min_ratio = 1:
\* the i-th point is 1 + i * (max_ratio - 1) / (num - 1), and 1 when num = 1
CandidateTenths(i, max_hundredths, num) ==
    IF num = 1 THEN 10
    ELSE RoundHalfEven(100 * (num - 1) + i * (max_hundredths - 100),
                       10 * (num - 1))

\* int(packing_ratio * device_batch_size)
RawBatchSize(tenths, device_batch_size) == (tenths * device_batch_size) \div 10

\* lines 528-530: a candidate is kept when its raw_batch_size is new
AddCandidate(acc, cand) ==
    IF \E k \in 1..Len(acc) : acc[k].raw_batch_size = cand.raw_batch_size
    THEN acc
    ELSE Append(acc, cand)

\* the loop of lines 520-530 from the i-th point on
RECURSIVE Candidates(_, _, _, _, _)
Candidates(i, num, max_hundredths, device_batch_size, acc) ==
    IF i >= num THEN acc
    ELSE Candidates(i + 1, num, max_hundredths, device_batch_size,
             AddCandidate(acc,
                 [packing_ratio |-> CandidateTenths(i, max_hundredths, num),
                  raw_batch_size |->
                      RawBatchSize(CandidateTenths(i, max_hundredths, num),
                                   device_batch_size)]))

\* ------------------------------------------------- profile_packing: profile
\* the profiling collator of lines 557-565
Packer(a) ==
    [out_size |-> a.device_batch_size, max_seq_len |-> a.max_seq_len,
     pad_token_id |-> 0, padding_side |-> "left",
     max_leftover_bins_to_keep |-> a.max_leftovers_to_keep,
     is_profiling |-> TRUE]

NewPacker ==
    [leftover_bins |-> <<>>, n_packed_tokens |-> 0, n_total_tokens |-> 0,
     n_packed_examples |-> 0]

\* sizes and trimmed_examples of line 550 for a sample given by the sizes of
\* its documents.  A profiling collator never opens an example (line 245), so
\* the j-th trimmed example is just j.
TrimmedSample(sample) ==
    [j \in 1..Len(sample) |-> [size |-> sample[j], ex |-> j]]

\* trimmed_examples_copy[idx:idx + raw_batch_size]
SliceAt(items, idx, raw_batch_size) ==
    SubSeq(items, idx + 1, Min(idx + raw_batch_size, Len(items)))

\* The loop of lines 568-575 from index idx on, on the packer state st:
\* [st, err].  A slice shorter than device_batch_size is skipped.
RECURSIVE FeedFrom(_, _, _, _, _)
RECURSIVE FeedNext(_, _, _, _, _)
FeedNext(r, items, idx, raw_batch_size, c) ==
    IF r.call.outcome = "raised" THEN [st |-> r.st, err |-> r.call.err]
    ELSE FeedFrom(r.st, items, idx + raw_batch_size, raw_batch_size, c)

FeedFrom(st, items, idx, raw_batch_size, c) ==
    IF idx >= Len(items) THEN [st |-> st, err |-> ""]
    ELSE IF Len(SliceAt(items, idx, raw_batch_size)) < c.out_size
    THEN FeedFrom(st, items, idx + raw_batch_size, raw_batch_size, c)
    ELSE FeedNext(_pack_trimmed_examples(
                      st, SliceAt(items, idx, raw_batch_size), c),
                  items, idx, raw_batch_size, c)

\* The properties efficiency and waste (lines 77-85) as lines 584-585 use
\* them, as exact fractions <<numerator, denominator>> of a percentage.
PaddingPercent(st, c) ==
    <<100 * (c.max_seq_len * st.n_packed_examples - st.n_packed_tokens),
      c.max_seq_len * st.n_packed_examples>>

WastePercent(st) ==
    <<100 * (st.n_total_tokens - st.n_packed_tokens), st.n_total_tokens>>

\* profile(raw_batch_size): [err, none, padding, waste]; none stands for the
\* pair (None, None) of line 581, and 1 - 0 / 0 raises ZeroDivisionError
ProfileOf(fed, c) ==
        IF fed.err # ""
        THEN [err |-> fed.err, none |-> FALSE, padding |-> <<>>, waste |-> <<>>]
        ELSE IF fed.st.n_packed_examples = 0
        THEN [err |-> "", none |-> TRUE, padding |-> <<>>, waste |-> <<>>]
        ELSE IF fed.st.n_total_tokens = 0
        THEN [err |-> "ZeroDivisionError", none |-> FALSE,
              padding |-> PaddingPercent(fed.st, c), waste |-> <<>>]
        ELSE [err |-> "", none |-> FALSE,
              padding |-> PaddingPercent(fed.st, c),
              waste |-> WastePercent(fed.st)]

profile(raw_batch_size, items, c) ==
    ProfileOf(FeedFrom(NewPacker, items, 0, raw_batch_size, c), c)

\* what a profiling result is to the walk: "error" (profile raised), "none"
\* (waste is None), "positive" (waste > 0) or "zero"
WasteKind(r) ==
    IF r.err # "" THEN "error"
    ELSE IF r.none THEN "none"
    ELSE IF r.waste[1] > 0 THEN "positive"
    ELSE "zero"

\* What the generator of lines 590-596 yields for each candidate of the grid.
\* It profiles a candidate when the walk draws it, so the walk decides how
\* many of these come to exist.
ProfilingResults(grid, items, c) ==
    [k \in 1..Len(grid) |-> profile(grid[k].raw_batch_size, items, c)]

\* history: the kind of the waste of every candidate of the grid on the
\* sample, whether the walk gets to the candidate or not
Measured(results) == [k \in 1..Len(results) |-> WasteKind(results[k])]

\* ----------------------------------------------------- auto_packing_ratio
\* a variant of the stop test that lets a positive waste pass
StopsOnNoneOnly(r) == r.none

\* waste is None or waste > 0 (line 433)
StopsWalk(r) == r.none \/ r.waste[1] > 0

\* a variant of line 435 that keeps the ratio it had
KeepsRatio(sel, cand) == sel

\* packing_ratio = packing_ratio_candidate (line 435); the candidate is the
\* numpy float of line 526
Selected(sel, cand) == [packing_ratio |-> cand.packing_ratio, dtype |-> "float64"]

\* packing_ratio = 1 (line 431), a Python int
InitialRatio == [packing_ratio |-> 10, dtype |-> "int64"]

\* The loop of lines 432-435 from the k-th candidate on, sel being the ratio
\* selected so far: [err, sel, seen], seen the number of candidates drawn
\* from the generator.  An exception of profile leaves the loop with it.
RECURSIVE Walk(_, _, _, _)
Walk(results, grid, k, sel) ==
    IF k > Len(grid) THEN [err |-> "", sel |-> sel, seen |-> Len(grid)]
    ELSE IF results[k].err # ""
    THEN [err |-> results[k].err, sel |-> sel, seen |-> k]
    ELSE IF StopsWalk(results[k]) THEN [err |-> "", sel |-> sel, seen |-> k]
    ELSE Walk(results, grid, k + 1, Selected(sel, grid[k]))

\* the state of the global RNG: the seed it was last seeded with and the
\* number of draws made since
SeededRng == [seed |-> 0, draws |-> 0]

\* a process of rank w - 1 enters with the RNG seeded by the run's seed plus
\* its rank
EntryRng(a, w) == [seed |-> a.seed + (w - 1), draws |-> 0]

\* building the dataloader and reading the sample draws from the RNG
Draw(r) == [r EXCEPT !.draws = @ + 1]

NoLocal ==
    [rng_state |-> <<>>, profiled |-> FALSE, walked |-> FALSE,
     packing_ratio |-> 0, dtype |-> "", seen |-> 0, kinds |-> <<>>]

NoCalls ==
    [profile_packing |-> FALSE, build_dataloader |-> FALSE, all_reduce |-> FALSE]

\* a variant of the short-circuit test that lets max_seq_len = 100 through
ShortCircuitsBelow(max_seq_len) == max_seq_len < 100

\* max_seq_len <= 100 (line 409)
ShortCircuits(max_seq_len) == max_seq_len <= 100

\* max_ratio as lines 413-414 leave it, in hundredths
MaxRatioOf(a) ==
    IF a.max_ratio = <<>> THEN a.max_seq_len ELSE a.max_ratio[1].hundredths

\* packing_ratios and raw_batch_sizes of lines 519-530
GridOf(a) ==
    Candidates(0, a.num_packing_ratios, MaxRatioOf(a), a.device_batch_size, <<>>)

\* max_ratio <= min_ratio (line 415)
RejectsMaxRatio(a) == a.max_ratio # <<>> /\ a.max_ratio[1].hundredths <= 100

\* the assertion of line 417 fails
NotAFloat(a) == a.max_ratio # <<>> /\ ~a.max_ratio[1].is_float

\* the call gets to build_dataloader (line 534); max() of line 532 raises
\* ValueError on an empty list
ReadsSample(a) ==
    /\ ~ShortCircuits(a.max_seq_len)
    /\ ~RejectsMaxRatio(a)
    /\ ~NotAFloat(a)
    /\ GridOf(a) # <<>>

Exit(exit, err, rng_now, loc, calls_made) ==
    [exit |-> exit, err |-> err, rng |-> rng_now, local |-> loc,
     did |-> calls_made]

\* lines 418-435 once the dataloader is built
WalkExit(grid, results) ==
    LET w == Walk(results, grid, 1, InitialRatio)
    IN  Exit(IF w.err = "" THEN "walked" ELSE "raise", w.err, Draw(SeededRng),
             [rng_state |-> <<>>, profiled |-> TRUE, walked |-> w.err = "",
              packing_ratio |-> w.sel.packing_ratio, dtype |-> w.sel.dtype,
              seen |-> w.seen, kinds |-> Measured(results)],
             [NoCalls EXCEPT !.profile_packing = TRUE,
                             !.build_dataloader = TRUE])

\* auto_packing_ratio from seed_all(0) (line 404) to the end of the walk
\* (line 435) on a process whose dataloader yields sample: exit is "return"
\* (line 410), "raise" or "walked"
auto_packing_ratio(a, sample) ==
    IF ShortCircuits(a.max_seq_len)
    THEN Exit("return", "", SeededRng, NoLocal, NoCalls)
    ELSE IF RejectsMaxRatio(a)
    THEN Exit("raise", "ValueError", SeededRng, NoLocal, NoCalls)
    ELSE IF NotAFloat(a)
    THEN Exit("raise", "AssertionError", SeededRng, NoLocal, NoCalls)
    ELSE IF GridOf(a) = <<>>
    THEN Exit("raise", "ValueError", SeededRng, NoLocal,
              [NoCalls EXCEPT !.profile_packing = TRUE])
    ELSE WalkExit(GridOf(a),
                  ProfilingResults(GridOf(a), TrimmedSample(sample), Packer(a)))

\* ------------------------------------------------- the distributed processes
Workers == 1..MaxWorkers

\* without an initialized process group there is the one process
Procs == IF acfg.dist_initialized THEN Workers ELSE {1}

\* the sizes a document of the sample may have
DocSizes(max_seq_len) == {s \in {0, 100, 160} : s <= max_seq_len}

Samples(a) ==
    UNION {[1..n -> DocSizes(a.max_seq_len)] : n \in 1..MaxSample}

\* the samples a call may read: none when it never builds the dataloader
SamplesRead(a) == IF ReadsSample(a) THEN Samples(a) ELSE {<<>>}

\* max_ratio: None, 1.0, 2.0 and the int 3
MaxRatios ==
    {<<>>, <<[is_float |-> TRUE, hundredths |-> 100]>>,
     <<[is_float |-> TRUE, hundredths |-> 200]>>,
     <<[is_float |-> FALSE, hundredths |-> 300]>>}

AutoConfigs ==
    [max_seq_len : {50, 100, 300},
     max_ratio : MaxRatios,
     num_packing_ratios : {0, 1, MaxNumRatios},
     device_batch_size : {1, MaxDeviceBatch},
     max_leftovers_to_keep : {<<>>, <<0>>},
     dist_initialized : BOOLEAN,
     seed : {0, 1}]

\* what auto_packing_ratio may do up to line 435 under configuration a, over
\* all the samples the dataloader may yield
LocalOutcomes(a) == {auto_packing_ratio(a, sample) : sample \in SamplesRead(a)}

\* Up to line 435 the call looks neither at the process group nor at the seed
\* of the run, so configurations that differ in these alone have the same
\* outcomes.
AutoInit ==
    /\ \E a \in {b \in AutoConfigs : ~b.dist_initialized /\ b.seed = 0} :
          /\ outcomes = LocalOutcomes(a)
          /\ \E d \in BOOLEAN : \E s \in {0, 1} :
                acfg = [a EXCEPT !.dist_initialized = d, !.seed = s]
    /\ apc = [w \in Workers |-> "start"]
    /\ rng = [w \in Workers |-> EntryRng(acfg, w)]
    /\ local = [w \in Workers |-> NoLocal]
    /\ result = [w \in Workers |-> <<>>]
    /\ raised = [w \in Workers |-> ""]
    /\ did = [w \in Workers |-> NoCalls]
    /\ CollatorIdle
    /\ UnitIdle

\* no auto_packing_ratio call under observation
AutoIdle ==
    /\ acfg = <<>>
    /\ outcomes = {}
    /\ apc = <<>>
    /\ rng = <<>>
    /\ local = <<>>
    /\ result = <<>>
    /\ raised = <<>>
    /\ did = <<>>

\* Worker w runs auto_packing_ratio from its entry to its return, its
\* exception or its entry into all_reduce (line 443).  rng_state is what
\* get_rng_state stashed (line 402), and only line 447 puts it back.
AutoPackingRatio(w) ==
    /\ w \in Procs
    /\ apc[w] = "start"
    /\ \E r \in outcomes :
          LET reduces == r.exit = "walked" /\ acfg.dist_initialized
          IN  /\ local' = [local EXCEPT ![w] =
                              [r.local EXCEPT !.rng_state = rng[w]]]
              /\ raised' = [raised EXCEPT ![w] = r.err]
              /\ did' = [did EXCEPT ![w] = [r.did EXCEPT !.all_reduce = reduces]]
              /\ apc' = [apc EXCEPT ![w] =
                            IF reduces THEN "all_reduce"
                            ELSE IF r.exit = "raise" THEN "raised"
                            ELSE "returned"]
              /\ rng' = [rng EXCEPT ![w] =
                            IF r.exit = "walked" /\ ~reduces THEN rng[w]
                            ELSE r.rng]
              /\ result' = [result EXCEPT ![w] =
                               IF r.exit = "return" THEN <<10>>
                               ELSE IF r.exit = "walked" /\ ~reduces
                               THEN <<r.local.packing_ratio>>
                               ELSE <<>>]
    /\ UNCHANGED <<acfg, outcomes, collatorVars, unitVars>>

\* torch.tensor(packing_ratio) has the dtype of the Python value: int64 for
\* the int 1 of line 431, a floating dtype for a candidate
Contributions == {local[v].packing_ratio : v \in Procs}

DtypesAgree == \A u \in Procs : \A v \in Procs : local[u].dtype = local[v].dtype

\* What all_reduce with MIN may leave in a worker's tensor.  The collective
\* is defined for tensors of one dtype on all ranks; with an int64 tensor on
\* one rank and a floating one on another each rank reads the other's bytes
\* as its own dtype, and the value is any of the contributions or none of
\* them (0).
ReducedValues ==
    IF DtypesAgree THEN {SetMin(Contributions)} ELSE Contributions \cup {0}

\* a variant of all_reduce that lets a worker through without the others
AllReduceAlone(w) ==
    /\ w \in Procs
    /\ apc[w] = "all_reduce"
    /\ \E x \in ReducedValues : result' = [result EXCEPT ![w] = <<x>>]
    /\ apc' = [apc EXCEPT ![w] = "returned"]
    /\ rng' = [rng EXCEPT ![w] = local[w].rng_state]
    /\ UNCHANGED <<acfg, outcomes, local, raised, did, collatorVars, unitVars>>

\* Worker w leaves all_reduce, which it can once every worker has entered it
\* (lines 443-449): the reduced value, load_rng_state, return.
AllReduce(w) ==
    /\ w \in Procs
    /\ apc[w] = "all_reduce"
    /\ \A v \in Procs : apc[v] \in {"all_reduce", "returned"}
    /\ \E x \in ReducedValues : result' = [result EXCEPT ![w] = <<x>>]
    /\ apc' = [apc EXCEPT ![w] = "returned"]
    /\ rng' = [rng EXCEPT ![w] = local[w].rng_state]
    /\ UNCHANGED <<acfg, outcomes, local, raised, did, collatorVars, unitVars>>

AutoNext ==
    \/ \E w \in Workers : AutoPackingRatio(w)
    \/ \E w \in Workers : AllReduce(w)

SpecAuto == AutoInit /\ [][AutoNext]_vars

\* The workers are processes of their own, each running lines 443-449: a
\* worker whose all_reduce can complete is not held there by anything else, so
\* it leaves it.  Nothing is assumed of a worker that has not reached line 443.
SpecAutoFair ==
    AutoInit /\ [][AutoNext]_vars /\ \A w \in Workers : WF_vars(AllReduce(w))

\* ------------------------------------------- the functions, one at a time
\* a variant of line 56 that lets a target_batch_size of 0 through
RejectsNegativeOutSize(out_size) == out_size < 0

\* self.out_size <= 0 (line 56)
RejectsOutSize(out_size) == out_size <= 0

\* max_leftover_bins_to_keep is not None and max_leftover_bins_to_keep < 0
RejectsKeep(max_leftover_bins_to_keep) ==
    max_leftover_bins_to_keep # <<>> /\ max_leftover_bins_to_keep[1] < 0

\* a variant that falls back to 'left' for a padding_side it does not know
NewCollatorLeft(a) ==
    [c |-> [out_size |-> a.target_batch_size, max_seq_len |-> a.max_seq_len,
            pad_token_id |-> a.pad_token_id,
            padding_side |-> IF a.padding_side \in {"left", "right"}
                             THEN a.padding_side ELSE "left",
            max_leftover_bins_to_keep |-> a.max_leftover_bins_to_keep,
            is_profiling |-> a.is_profiling],
     st |-> NewPacker]

\* the collator __init__ leaves: its configuration c and its mutable state st
\* (lines 50-54, 67-75); padding_side is stored as it comes (line 54)
NewCollator(a) ==
    [c |-> [out_size |-> a.target_batch_size, max_seq_len |-> a.max_seq_len,
            pad_token_id |-> a.pad_token_id, padding_side |-> a.padding_side,
            max_leftover_bins_to_keep |-> a.max_leftover_bins_to_keep,
            is_profiling |-> a.is_profiling],
     st |-> NewPacker]

\* BinPackCollator.__init__ on integer arguments: [err, obj], obj the
\* collator (<<>> when the constructor raised)
__init__(a) ==
    IF RejectsOutSize(a.target_batch_size)
    THEN [err |-> "ValueError", obj |-> <<>>]
    ELSE IF a.max_seq_len <= 0 THEN [err |-> "ValueError", obj |-> <<>>]
    ELSE IF a.pad_token_id < 0 THEN [err |-> "ValueError", obj |-> <<>>]
    ELSE IF RejectsKeep(a.max_leftover_bins_to_keep)
    THEN [err |-> "ValueError", obj |-> <<>>]
    ELSE [err |-> "", obj |-> <<NewCollator(a)>>]

\* the values a caller may pass for padding_side: the two of the Literal and
\* one that is neither
Sides == {"left", "right", "center"}

\* the tensors of n values, for n in lo..hi
Tensors(lo, hi) == UNION {[1..n -> {5, 6}] : n \in lo..hi}

InitArgs ==
    [fn : {"__init__"},
     target_batch_size : -1..MaxOutSize,
     max_seq_len : -1..MaxSeqLen,
     pad_token_id : {-1, 0},
     padding_side : Sides,
     max_leftover_bins_to_keep : {<<>>, <<-1>>, <<0>>, <<MaxKeep>>},
     is_profiling : BOOLEAN]

PadArgs ==
    [fn : {"_pad_tensor"},
     tensor : Tensors(0, MaxSeqLen + 1),
     pad_value : {0, CROSS_ENTROPY_IGNORE_INDEX},
     max_seq_len : 0..MaxSeqLen,
     padding_side : Sides]

\* the collators a batch is given to, Normal and of any padding_side
UnitConfigs ==
    [out_size : {1, MaxOutSize},
     max_seq_len : {MaxSeqLen},
     pad_token_id : {0},
     padding_side : Sides,
     max_leftover_bins_to_keep : {<<>>, <<0>>, <<MaxKeep>>},
     is_profiling : {FALSE}]

\* a batch of the base collator, given by the sizes of its rows
BatchArgs(fn) ==
    [fn : {fn},
     c : UnitConfigs,
     with_labels : BOOLEAN,
     sizes : SizeLists(1, MaxRows, MaxSeqLen)]

\* the examples _combine_in_place merges into one bin, in the order given
CombineArgs ==
    [fn : {"_combine_in_place"},
     with_labels : BOOLEAN,
     sizes : UNION {[1..n -> 0..MaxSeqLen] : n \in 1..MaxRows}]

\* The bins an earlier call may have left: each holds one document of at
\* least one token, the list is in descending order of size (line 266 sorts
\* it, line 141 cuts it).
ExistingSizes ==
    {sz \in SizeLists(0, MaxExisting, MaxSeqLen) : \A k \in 1..Len(sz) : sz[k] >= 1}

ExistingBins(sizes, with_labels) ==
    SortedDesc(_trim_batch(MakeBatch(sizes, FieldsOf(with_labels),
        [max_seq_len |-> MaxSeqLen, pad_token_id |-> 0,
         padding_side |-> "right"])))

\* the (size, example) pairs of line 188, for rows of the given sizes
ItemsOf(sizes, with_labels) ==
    _trim_batch(MakeBatch(sizes, FieldsOf(with_labels),
        [max_seq_len |-> MaxSeqLen, pad_token_id |-> 0,
         padding_side |-> "right"]))

\* _first_fit_bin_packing's arguments; max_bin_size is the collator's
\* max_seq_len (line 135), which also bounds every item
EngineArgs ==
    [fn : {"_first_fit_bin_packing"},
     num_bins : 1..MaxBins,
     max_bin_size : {MaxSeqLen},
     with_labels : BOOLEAN,
     is_profiling : BOOLEAN,
     existing : ExistingSizes,
     sizes : SizeLists(1, MaxEngineItems, MaxSeqLen)]

Units ==
    InitArgs \cup PadArgs \cup BatchArgs("_trim_batch") \cup BatchArgs("pack")
        \cup CombineArgs \cup EngineArgs

\* the batch of a unit
BatchOf(u) == MakeBatch(u.sizes, FieldsOf(u.with_labels), u.c)

\* _trim_batch followed by _pad_tensor on every field of every trimmed
\* example, to the length of the row it came from, on the collator's side and
\* with the pad values of lines 154-159
Repadded(trimmed, c) ==
    [k \in 1..Len(trimmed) |->
        [f \in DOMAIN trimmed[k].ex |->
            _pad_tensor(trimmed[k].ex[f], PAD_VALS(c.pad_token_id)[f],
                        c.max_seq_len, c.padding_side)]]

\* the bin that holds examples[1] with examples[2..] merged into it in order,
\* as lines 241-251 build it: [err, val]
RECURSIVE MergeFrom(_, _, _)
MergeNext(merged, examples, k) ==
    IF merged.err # "" THEN merged ELSE MergeFrom(merged.val, examples, k + 1)

MergeFrom(bin, examples, k) ==
    IF k > Len(examples) THEN [err |-> "", val |-> bin]
    ELSE MergeNext(_combine_in_place(bin, examples[k]), examples, k)

\* the trimmed examples of rows of the given sizes, on a right-padded batch
ExamplesOf(sizes, with_labels) ==
    BinExamples(_trim_batch(MakeBatch(sizes, FieldsOf(with_labels),
        [max_seq_len |-> MaxSeqLen, pad_token_id |-> 0,
         padding_side |-> "right"])))

\* the collator BinPackCollator(...) returns for the configuration c
\* (UnitConfigs holds no configuration the constructor rejects)
CtorArgs(c) ==
    [target_batch_size |-> c.out_size, max_seq_len |-> c.max_seq_len,
     pad_token_id |-> c.pad_token_id, padding_side |-> c.padding_side,
     max_leftover_bins_to_keep |-> c.max_leftover_bins_to_keep,
     is_profiling |-> c.is_profiling]

Constructed(c) == __init__(CtorArgs(c)).obj[1]

\* the same batch given to a Normal collator through pack and to a Profiling
\* collator of the same configuration through _pack_trimmed_examples
Profiling(c) == [c EXCEPT !.is_profiling = TRUE]

UnitInit ==
    /\ unit \in Units
    /\ out = <<>>
    /\ CollatorIdle
    /\ AutoIdle

Apply(fn, res) ==
    /\ unit.fn = fn
    /\ out = <<>>
    /\ out' = res
    /\ UNCHANGED <<unit, collatorVars, autoVars>>

Construct == Apply("__init__", __init__(unit))

PadTensor ==
    Apply("_pad_tensor",
          _pad_tensor(unit.tensor, unit.pad_value, unit.max_seq_len,
                      unit.padding_side))

TrimAndRepad ==
    Apply("_trim_batch",
          [batch |-> BatchOf(unit),
           trimmed |-> _trim_batch(BatchOf(unit)),
           repadded |-> Repadded(_trim_batch(BatchOf(unit)), unit.c)])

Combine ==
    Apply("_combine_in_place",
          [examples |-> ExamplesOf(unit.sizes, unit.with_labels),
           merged |-> MergeFrom(ExamplesOf(unit.sizes, unit.with_labels)[1],
                                ExamplesOf(unit.sizes, unit.with_labels), 2)])

PackOnce ==
    Apply("pack",
          [normal |-> pack(Constructed(unit.c).st, BatchOf(unit),
                           Constructed(unit.c).c),
           profiling |-> _pack_trimmed_examples(
                             Constructed(Profiling(unit.c)).st,
                             _trim_batch(BatchOf(unit)),
                             Constructed(Profiling(unit.c)).c)])

FirstFitBinPacking ==
    Apply("_first_fit_bin_packing",
          _first_fit_bin_packing(ItemsOf(unit.sizes, unit.with_labels),
                                 unit.num_bins, unit.max_bin_size,
                                 ExistingBins(unit.existing, unit.with_labels),
                                 unit.is_profiling))

UnitNext ==
    \/ FirstFitBinPacking
    \/ Construct
    \/ PadTensor
    \/ TrimAndRepad
    \/ Combine
    \/ PackOnce

SpecUnit == UnitInit /\ [][UnitNext]_vars

Init == CollatorInit /\ AutoIdle /\ UnitIdle

Next ==
    \/ PackValid
    \/ PackInvalid
    \/ Profile
    \/ Done

Spec == Init /\ [][Next]_vars

\* ------------------------------------------------------------------ claims
CallFinished == last.outcome # "none"

\* the engine returned in the last call (the call may still have raised later,
\* in _convert_to_batch)
EngineReturned == last.stage \in {"done", "convert"}

\* the last call ran to its end and returned to its caller
CallReturned == last.outcome = "returned"

\* C1: token conservation in the engine.  Whenever _first_fit_bin_packing
\* returns, the sizes of the selected bins plus the sizes of the leftover bins
\* it returns add up to the input item sizes plus the sizes of the existing
\* bins it was given; and no call ends in the 'Error in packing' check.
C1_EngineConservation ==
    /\ last.err # "AssertionError(Error in packing)"
    /\ EngineReturned =>
          SumSeq(last.selected_sizes) + SumSeq(last.engine_leftover_sizes)
              = last.input_sum + TotalBinSizes(pre.leftover_bins)

\* a call on the general path that was given existing bins and merged items:
\* fewer bins came out than existing bins and items went in
C1_Witness ==
    /\ EngineReturned
    /\ last.path = "general"
    /\ pre.leftover_bins # <<>>
    /\ last.input_sum > 0
    /\ Len(last.selected_sizes) + Len(last.engine_leftover_sizes)
          < Len(pre.leftover_bins) + last.n_items

C3_Capacity ==
    /\ \A k \in 1..Len(leftover_bins) : leftover_bins[k].size <= cfg.max_seq_len
    /\ \A k \in 1..Len(last.selected_sizes) :
          last.selected_sizes[k] <= cfg.max_seq_len
    /\ \A t \in 1..Len(last.trace) : \A k \in 1..Len(last.trace[t]) :
          last.trace[t][k] <= cfg.max_seq_len

\* an iteration of the item loop that merged an item of at least one token
\* into a bin and filled it to exactly max_seq_len (the merged bin is put
\* back at the end of the list)
C3_Witness ==
    /\ last.path = "general"
    /\ \E t \in 1..(Len(last.trace) - 1) :
          /\ Len(last.trace[t + 1]) = Len(last.trace[t])
          /\ SumSeq(last.trace[t + 1]) > SumSeq(last.trace[t])
          /\ last.trace[t + 1][Len(last.trace[t + 1])] = cfg.max_seq_len

\* the last call had enough items: at least max(0, target_batch_size - number
\* of leftover bins carried in)
SufficientInput ==
    last.n_items >= Max(0, cfg.out_size - Len(pre.leftover_bins))

C5_ErrorAtomicity ==
    (last.outcome = "raised" /\ last.stage \in {"validation", "engine"}) =>
        Snapshot = pre

\* ----------------------------------------------- claims: auto_packing_ratio
\* worker w has left auto_packing_ratio
Left(w) == apc[w] \in {"returned", "raised"}

\* C6: RNG restoration.  On every exit of auto_packing_ratio (the return
\* after profiling, the return for max_seq_len <= 100, an exception) the
\* global RNG state of the process is the state it had on entry.
C6_RngRestored ==
    \A w \in Procs : Left(w) => rng[w] = EntryRng(acfg, w)

\* every worker has returned from a call that went through the reduction
AllReduced ==
    /\ acfg.dist_initialized
    /\ acfg.max_seq_len > 100
    /\ \A w \in Procs : apc[w] = "returned"

FirstStop(kinds) ==
    SetMin({k \in 1..Len(kinds) : kinds[k] # "zero"} \cup {Len(kinds) + 1})

\* C8: the selection walk.  A walk that ends selects the candidate just
\* before the first one whose waste is positive or None, and 1 when that is
\* the first candidate; it draws no candidate after that one; and a waste of
\* None stops the walk without an exception.
C8_SelectionWalk ==
    \A w \in Procs :
        LET g == GridOf(acfg)
            k == FirstStop(local[w].kinds)
        IN  /\ local[w].walked =>
                /\ local[w].packing_ratio =
                       IF k = 1 THEN 10 ELSE g[k - 1].packing_ratio
                /\ local[w].seen = Min(k, Len(g))
            /\ (local[w].profiled /\ k <= Len(g) /\ local[w].kinds[k] = "none")
                   => (local[w].walked /\ raised[w] = "")

\* a walk that stopped at its second candidate, of positive waste, kept the
\* first and never drew the third
C8_Witness ==
    \E w \in Procs :
        /\ local[w].walked
        /\ Len(local[w].kinds) >= 3
        /\ local[w].kinds[1] = "zero"
        /\ local[w].kinds[2] = "positive"
        /\ local[w].seen = 2
        /\ local[w].packing_ratio = GridOf(acfg)[1].packing_ratio

\* the candidates of the grid whose waste on the worker's sample is zero
ZeroWaste(w) ==
    {GridOf(acfg)[k].packing_ratio :
        k \in {j \in 1..Len(local[w].kinds) : local[w].kinds[j] = "zero"}}

\* the candidates such that they and all smaller ones have zero waste
ZeroWastePrefix(w) ==
    {GridOf(acfg)[k].packing_ratio :
        k \in {j \in 1..Len(local[w].kinds) :
                  \A i \in 1..j : local[w].kinds[i] = "zero"}}

C10_ShortCircuit ==
    \A w \in Procs :
        (apc[w] # "start" /\ acfg.max_seq_len <= 100) =>
            /\ apc[w] = "returned"
            /\ result[w] = <<10>>
            /\ did[w] = NoCalls
            /\ ~local[w].profiled

\* a worker of an initialized process group returned from a call with
\* max_seq_len = 100 and a max_ratio of 1.0, which line 415 would reject
C10_Witness ==
    \E w \in Procs :
        /\ apc[w] = "returned"
        /\ acfg.max_seq_len = 100
        /\ acfg.dist_initialized
        /\ RejectsMaxRatio(acfg)

\* ------------------------------------------------- claims: the two modes
\* what a Profiling-mode collator shows after a call
ProfilingCall ==
    /\ last.entry = "pack" =>
          /\ last.outcome = "raised"
          /\ last.err = "ValueError"
          /\ last.stage = "validation"
          /\ Snapshot = pre
          /\ ret.none
    /\ last.entry = "_pack_trimmed_examples" =>
          /\ last.outcome = "returned"
          /\ ret.none

\* C12: Profiling-mode misuse.  On a collator constructed with
\* is_profiling=True every call of pack (directly or through __call__) raises
\* ValueError before any work is done, leaving leftover_bins and the three
\* counters as they were; the internal _pack_trimmed_examples returns None;
\* and no call changes the mode (or anything else of the configuration).
C12_ProfilingMisuse ==
    /\ []((cfg.is_profiling /\ CallFinished) => ProfilingCall)
    /\ [][cfg' = cfg]_vars

\* pack was called on a Profiling-mode collator that had packed tokens and
\* kept leftover bins in an earlier call
C12_Witness ==
    /\ cfg.is_profiling
    /\ last.entry = "pack"
    /\ pre.leftover_bins # <<>>
    /\ pre.n_packed_tokens > 0

\* the engine ran in the last call
EngineRan == last.stage \in {"engine", "done", "convert"}

\* a second run of the engine on the arguments of the last call: the trimmed
\* rows of the same batch, num_bins, max_bin_size, the leftover bins the
\* collator held before the call, and the mode
SecondRun ==
    _first_fit_bin_packing(
        _trim_batch(MakeBatch(last.sizes, FieldsOf(has_labels), cfg)),
        cfg.out_size, cfg.max_seq_len, pre.leftover_bins, cfg.is_profiling)

\* what the collator shows of the engine's results e after a call
SameResults(e) ==
    /\ last.trace = e.trace
    /\ last.stage = "engine" =>
          /\ last.err = e.err
          /\ leftover_bins = e.bins
    /\ EngineReturned =>
          /\ e.err = ""
          /\ last.selected_sizes = e.selected_sizes
          /\ last.engine_leftover_sizes = BinSizes(e.leftover_bins)
          /\ leftover_bins =
                 KeptLeftovers(e.leftover_bins, cfg.max_leftover_bins_to_keep)
          /\ n_packed_tokens - pre.n_packed_tokens = e.n_packed_tokens
          /\ n_total_tokens - pre.n_total_tokens = e.n_total_tokens
    /\ (CallReturned /\ ~cfg.is_profiling) =>
          ret.batch = _convert_to_batch(e.packed_examples, cfg).val

Applied(fn) == unit.fn = fn /\ out # <<>>

\* what a call r = [st, ret, call] leaves of the engine's leftover bins under
\* the setting keep of max_leftover_bins_to_keep
BoundedBy(r, keep) ==
    /\ keep # <<>> => Len(r.st.leftover_bins) <= keep[1]
    /\ r.call.stage \in {"done", "convert"} =>
          /\ BinSizes(r.st.leftover_bins) =
                 IF keep = <<>> THEN r.call.engine_leftover_sizes
                 ELSE Prefix(r.call.engine_leftover_sizes, keep[1])
          /\ \A k \in 1..(Len(r.st.leftover_bins) - 1) :
                r.st.leftover_bins[k].size >= r.st.leftover_bins[k + 1].size

\* C11: bounded leftover state.  After every collator call, in Normal or
\* Profiling mode, the collator stores at most max_leftover_bins_to_keep
\* leftover bins when that is an integer; the bins it keeps are the largest of
\* the engine's leftover bins, in descending order of size; and None drops no
\* leftover bin.
C11_BoundedLeftovers ==
    Applied("pack") =>
        /\ BoundedBy(out.normal, unit.c.max_leftover_bins_to_keep)
        /\ BoundedBy(out.profiling, unit.c.max_leftover_bins_to_keep)

\* the bookkeeping of a call r = [st, ret, call]: the bin-size lists the
\* engine went through, the sizes of the bins it selected and left over, the
\* sizes of the bins the collator keeps, and the three counters
Bookkeeping(r) ==
    [trace |-> r.call.trace,
     selected_sizes |-> r.call.selected_sizes,
     engine_leftover_sizes |-> r.call.engine_leftover_sizes,
     leftover_sizes |-> BinSizes(r.st.leftover_bins),
     n_packed_tokens |-> r.st.n_packed_tokens,
     n_total_tokens |-> r.st.n_total_tokens,
     n_packed_examples |-> r.st.n_packed_examples]

\* C13: Profiling bookkeeping equals real packing.  Given the same
\* configuration and the same batch, a Profiling-mode collator and a
\* Normal-mode collator go through the same bin-size lists, select and leave
\* over bins of the same sizes, and have the same n_packed_tokens,
\* n_total_tokens and n_packed_examples after the call.
C13_ProfilingBookkeeping ==
    Applied("pack") => Bookkeeping(out.normal) = Bookkeeping(out.profiling)

\* the numeric arguments of the unit are ones the claim calls invalid
InvalidNumbers ==
    \/ unit.target_batch_size <= 0
    \/ unit.max_seq_len <= 0
    \/ unit.pad_token_id < 0
    \/ /\ unit.max_leftover_bins_to_keep # <<>>
       /\ unit.max_leftover_bins_to_keep[1] < 0

\* C15: eager validation of the numeric configuration.  The constructor
\* raises, and yields no collator, when target_batch_size <= 0, or
\* max_seq_len <= 0, or pad_token_id < 0, or max_leftover_bins_to_keep is an
\* integer < 0; with valid values the collator starts with no leftover bins
\* and its three counters at 0.
C15_EagerValidation ==
    Applied("__init__") =>
        /\ InvalidNumbers => (out.err # "" /\ out.obj = <<>>)
        /\ ~InvalidNumbers =>
              /\ out.err = ""
              /\ Len(out.obj) = 1
              /\ out.obj[1].st = [leftover_bins |-> <<>>, n_packed_tokens |-> 0,
                                  n_total_tokens |-> 0, n_packed_examples |-> 0]

\* the constructor raised for a target_batch_size of 0, everything else
\* being valid
C15_Witness ==
    /\ Applied("__init__")
    /\ unit.target_batch_size = 0
    /\ unit.max_seq_len > 0
    /\ unit.pad_token_id >= 0
    /\ unit.max_leftover_bins_to_keep = <<>>
    /\ out.err = "ValueError"

\* the unit's padding_side is neither 'left' nor 'right'
UnknownSide(side) == side \notin {"left", "right"}

\* C16 as stated: constructing a collator with a padding_side other than
\* 'left' or 'right' raises an error at construction time.
C16_AsStated ==
    (Applied("__init__") /\ UnknownSide(unit.padding_side)) => out.err # ""

\* C16 amended: the constructor does not look at padding_side: with valid
\* numbers it returns a collator that stores the value as it came.  The
\* error comes at call time: a Normal-mode pack call of such a collator whose
\* engine returns raises ValueError in _convert_to_batch exactly when one of
\* the bins it selected is shorter than max_seq_len, and returns a batch
\* otherwise; the Profiling-mode call never raises for it.
C16_LatePaddingSideError ==
    /\ (Applied("__init__") /\ ~InvalidNumbers) =>
          /\ out.err = ""
          /\ out.obj[1].c.padding_side = unit.padding_side
    /\ (Applied("pack") /\ UnknownSide(unit.c.padding_side)) =>
          /\ out.normal.call.stage \in {"engine", "convert", "done"}
          /\ out.normal.call.stage \in {"convert", "done"} =>
                /\ out.normal.call.stage = "convert" <=>
                      \E k \in 1..Len(out.normal.call.selected_sizes) :
                          out.normal.call.selected_sizes[k] < unit.c.max_seq_len
                /\ out.normal.call.stage = "convert" =>
                      out.normal.call.err = "ValueError"
                /\ out.normal.call.stage = "done" => ~out.normal.ret.none
          /\ out.profiling.call.outcome = "returned"

\* a collator constructed with padding_side='center' raised ValueError in its
\* first pack call, after the engine had packed the batch and the counters
\* had been updated
C16_Witness ==
    /\ Applied("pack")
    /\ unit.c.padding_side = "center"
    /\ out.normal.call.stage = "convert"
    /\ out.normal.call.err = "ValueError"
    /\ out.normal.st.n_packed_examples > 0

\* C17 as stated: for every tensor of length <= max_seq_len, a tensor of
\* exactly max_seq_len included, and every side other than 'left' and
\* 'right', _pad_tensor raises and returns nothing.
C17_AsStated ==
    (/\ Applied("_pad_tensor")
     /\ Len(unit.tensor) <= unit.max_seq_len
     /\ UnknownSide(unit.padding_side)) => (out.err # "" /\ out.val = <<>>)

\* C17 amended: for every side other than 'left' and 'right', _pad_tensor
\* raises ValueError and returns nothing on every tensor shorter than
\* max_seq_len, and returns a tensor of exactly max_seq_len unchanged,
\* without an error.
C17_RejectsUnknownSide ==
    (Applied("_pad_tensor") /\ UnknownSide(unit.padding_side)) =>
        /\ Len(unit.tensor) < unit.max_seq_len =>
              (out.err = "ValueError" /\ out.val = <<>>)
        /\ Len(unit.tensor) = unit.max_seq_len =>
              (out.err = "" /\ out.val = unit.tensor)

\* _pad_tensor raised for the side 'center' on a tensor of at least one
\* value, shorter than max_seq_len
C17_Witness ==
    /\ Applied("_pad_tensor")
    /\ unit.padding_side = "center"
    /\ Len(unit.tensor) > 0
    /\ Len(unit.tensor) < unit.max_seq_len
    /\ out.err = "ValueError"

\* C18: the result of _pad_tensor.  For every tensor of length n <=
\* max_seq_len, every pad value and the sides 'left' and 'right', _pad_tensor
\* returns a tensor of exactly max_seq_len values: the max_seq_len - n pad
\* values first and then the tensor for 'left', the tensor first for
\* 'right'; and the tensor itself when n = max_seq_len.
C18_PadResult ==
    (/\ Applied("_pad_tensor")
     /\ Len(unit.tensor) <= unit.max_seq_len
     /\ ~UnknownSide(unit.padding_side)) =>
        /\ out.err = ""
        /\ Len(out.val) = unit.max_seq_len
        /\ out.val =
              IF unit.padding_side = "left"
              THEN Fill(unit.max_seq_len - Len(unit.tensor), unit.pad_value)
                       \o unit.tensor
              ELSE unit.tensor
                       \o Fill(unit.max_seq_len - Len(unit.tensor), unit.pad_value)
        /\ Len(unit.tensor) = unit.max_seq_len => out.val = unit.tensor

\* C19: round trip of trim and pad.  For every row of a padded batch and
\* every field of the row, trimming the row with _trim_batch and padding the
\* trimmed field back to the length of the row, on the same side and with the
\* pad value of the field, gives the row's field again.
C19_RoundTrip ==
    (Applied("_trim_batch") /\ ~UnknownSide(unit.c.padding_side)) =>
        \A k \in 1..Len(out.batch) : \A f \in DOMAIN out.batch[k] :
            /\ out.repadded[k][f].err = ""
            /\ out.repadded[k][f].val = out.batch[k][f]

\* the first position of the j-th example in the bin, counted from 0
OffsetOf(sizes, j) == SumSeq(SubSeq(sizes, 1, j - 1))

\* the part of the field f of the merged bin that came from the j-th example
Segment(f, j) ==
    SubSeq(out.merged.val[f], OffsetOf(unit.sizes, j) + 1,
           OffsetOf(unit.sizes, j) + unit.sizes[j])

\* the labels of the j-th example as the bin is to hold them
MergedLabels(j) ==
    [i \in 1..unit.sizes[j] |->
        IF j > 1 /\ i = 1 THEN CROSS_ENTROPY_IGNORE_INDEX
        ELSE out.examples[j].labels[i]]

\* the merge went through: the bin holds all the examples of the unit
Merged == Applied("_combine_in_place") /\ out.merged.err = ""

\* labels and the other fields but sequence_id, as C20 states them
MergedFields ==
    \A j \in 1..Len(unit.sizes) :
        \A f \in (DOMAIN out.examples[j]) \ {"sequence_id"} :
            Segment(f, j) = IF f = "labels" THEN MergedLabels(j)
                            ELSE out.examples[j][f]

\* C20 as stated: a bin built by merging k >= 1 trimmed examples in order has
\* sequence_id j - 1 on the positions of the j-th example, labels that are
\* the examples' labels with the first label of every appended example
\* replaced by -100, and the plain concatenation in every other field.
C20_AsStated ==
    Merged =>
        /\ MergedFields
        /\ \A j \in 1..Len(unit.sizes) :
              Segment("sequence_id", j) = Fill(unit.sizes[j], j - 1)

\* the examples before the j-th that are not empty
NonEmptyBefore(j) == {i \in 1..(j - 1) : unit.sizes[i] > 0}

\* C20 amended: the positions of the j-th example carry as sequence_id the
\* number of non-empty examples merged before it (1 + the largest
\* sequence_id of the bin so far), which is j - 1 when no example is empty;
\* labels and the other fields are as stated.
C20_CombineRule ==
    Merged =>
        /\ MergedFields
        /\ \A j \in 1..Len(unit.sizes) :
              Segment("sequence_id", j) =
                  Fill(unit.sizes[j], Cardinality(NonEmptyBefore(j)))
        /\ (\A j \in 1..Len(unit.sizes) : unit.sizes[j] > 0) =>
              \A j \in 1..Len(unit.sizes) :
                  Segment("sequence_id", j) = Fill(unit.sizes[j], j - 1)

\* three examples with labels, none empty, merged into one bin: the second
\* and the third start with the ignore value
C20_Witness ==
    /\ Merged
    /\ unit.with_labels
    /\ Len(unit.sizes) = 3
    /\ \A j \in 1..3 : unit.sizes[j] > 0
    /\ unit.sizes[2] > 1
    /\ Segment("labels", 2)[1] = CROSS_ENTROPY_IGNORE_INDEX
    /\ Segment("labels", 2)[2] = out.examples[2].labels[2]
    /\ Segment("sequence_id", 3)[1] = 2

\* ------------------------------------------------- claims: the engine alone
\* the engine was applied and returned
EngineDone == Applied("_first_fit_bin_packing") /\ out.err = ""

\* m * num_bins items, each of max_bin_size / m tokens, and no existing bins
EqualItems(m) ==
    /\ unit.fn = "_first_fit_bin_packing"
    /\ unit.existing = <<>>
    /\ unit.max_bin_size % m = 0
    /\ Len(unit.sizes) = m * unit.num_bins
    /\ \A k \in 1..Len(unit.sizes) : unit.sizes[k] * m = unit.max_bin_size

\* C21: perfect packing of equal items.  With no existing bins and
\* m * num_bins items of max_bin_size / m tokens each, the engine returns
\* num_bins bins of max_bin_size tokens each and no leftover bin, and its
\* n_packed_tokens equals its n_total_tokens.
C21_PerfectPacking ==
    \A m \in 1..MaxSeqLen :
        (EqualItems(m) /\ out # <<>>) =>
            /\ out.err = ""
            /\ out.selected_sizes = Fill(unit.num_bins, unit.max_bin_size)
            /\ Len(out.packed_examples) = unit.num_bins
            /\ out.leftover_bins = <<>>
            /\ out.n_packed_tokens = out.n_total_tokens

\* the scenario [50, 50, 50, 50] with two bins of 100, in halves of
\* max_bin_size: four items, two to a bin
C21_Witness ==
    /\ EngineDone
    /\ EqualItems(2)
    /\ unit.num_bins = 2
    /\ Len(unit.sizes) = 4
    /\ out.selected_sizes = <<unit.max_bin_size, unit.max_bin_size>>

\* a list of sizes in the opposite order
Reversed(s) == [k \in 1..Len(s) |-> s[Len(s) + 1 - k]]

Descending(s) == \A k \in 1..(Len(s) - 1) : s[k] >= s[k + 1]

\* the two lists hold the same sizes, each as often
SameSizes(a, b) ==
    /\ Len(a) = Len(b)
    /\ \A v \in 0..(MaxSeqLen * (MaxEngineItems + 1)) :
          Cardinality({k \in 1..Len(a) : a[k] = v})
              = Cardinality({k \in 1..Len(b) : b[k] = v})

\* the sizes of the existing bins and of the items, as the engine meets them
ExistingDesc == Reversed(unit.existing)

ItemsDesc == Reversed(unit.sizes)

\* fewer items than max(0, num_bins - number of existing bins)
FewItems ==
    /\ unit.fn = "_first_fit_bin_packing"
    /\ Len(unit.sizes) < Max(0, unit.num_bins - Len(unit.existing))

\* C24: the fast exit.  With fewer items than max(0, num_bins - number of
\* existing bins) the engine returns without an exception; the list of bins
\* is then the existing bins, untouched, followed by one bin per item holding
\* that item alone; the packed examples are all these bins, fewer than
\* num_bins, in descending order of size; there is no leftover bin;
\* n_packed_tokens is the sum of all those sizes and n_total_tokens the sum of
\* the items' sizes.
C24_FastExit ==
    (FewItems /\ out # <<>>) =>
        /\ out.err = ""
        /\ out.path = "fast_exit"
        /\ SubSeq(out.bins, 1, Len(unit.existing))
              = ExistingBins(unit.existing, unit.with_labels)
        /\ SubSeq(out.bins, Len(unit.existing) + 1, Len(out.bins))
              = SortedDesc(ItemsOf(unit.sizes, unit.with_labels))
        /\ BinSizes(out.bins) = ExistingDesc \o ItemsDesc
        /\ Len(out.packed_examples) = Len(unit.existing) + Len(unit.sizes)
        /\ Len(out.packed_examples) < unit.num_bins
        /\ Len(out.selected_sizes) = Len(out.packed_examples)
        /\ Descending(out.selected_sizes)
        /\ SameSizes(out.selected_sizes, BinSizes(out.bins))
        /\ out.leftover_bins = <<>>
        /\ out.n_packed_tokens = SumSeq(unit.existing) + SumSeq(unit.sizes)
        /\ out.n_total_tokens = SumSeq(unit.sizes)

\* a fast exit that left an item on its own although an existing bin had room
\* for it
C24_Witness ==
    /\ FewItems
    /\ EngineDone
    /\ unit.existing # <<>>
    /\ \E k \in 1..Len(unit.sizes) :
          /\ unit.sizes[k] >= 1
          /\ unit.existing[1] + unit.sizes[k] <= unit.max_bin_size
    /\ Len(out.bins) = Len(unit.existing) + Len(unit.sizes)

\* the engine went into its item loop
GeneralPath ==
    /\ unit.fn = "_first_fit_bin_packing"
    /\ out # <<>>
    /\ out.path = "general"

\* The iterations the loop made, counted from 0 as enumerate does;
\* out.trace[i + 1] lists the bin sizes before iteration i and
\* out.trace[i + 2] those after it.
Steps == 0..(Len(out.trace) - 2)

Remaining(i) == Len(unit.sizes) - i

RequiredAt(i) == Max(0, unit.num_bins - Len(out.trace[i + 1]))

\* iteration i put its item into a new bin of its own
OpensBin(i) == out.trace[i + 2] = Append(out.trace[i + 1], ItemsDesc[i + 1])

\* the bins that had room for the item of iteration i
Roomy(i) ==
    {b \in 1..Len(out.trace[i + 1]) :
        out.trace[i + 1][b] + ItemsDesc[i + 1] <= unit.max_bin_size}

\* C25: the reservation rule.  In the item loop the number of items not yet
\* processed is at every iteration at least max(0, num_bins - number of
\* bins), so the assertion of line 231 never fails; when the two are equal
\* the current item and every later one open a bin of their own, whether or
\* not a bin has room, and the loop runs to its end; after the loop there are
\* at least num_bins bins; and with no existing bins and as many items as
\* num_bins every item has its own bin and all tokens are packed.
C25_Reservation ==
    GeneralPath =>
        /\ out.err # "AssertionError(n_remaining)"
        /\ \A i \in Steps : Remaining(i) >= RequiredAt(i)
        /\ \A i \in Steps :
              Remaining(i) = RequiredAt(i) =>
                  /\ out.err = ""
                  /\ \A j \in i..(Len(unit.sizes) - 1) : OpensBin(j)
        /\ out.err = "" => Len(out.bins) >= unit.num_bins
        /\ (unit.existing = <<>> /\ Len(unit.sizes) = unit.num_bins) =>
              /\ out.err = ""
              /\ BinSizes(out.bins) = ItemsDesc
              /\ out.leftover_bins = <<>>
              /\ out.n_packed_tokens = SumSeq(unit.sizes)
              /\ out.n_packed_tokens = out.n_total_tokens

\* the reservation set in after an item had been merged, and kept an item of
\* at least one token out of a bin that had room for it
C25_Witness ==
    /\ GeneralPath
    /\ out.err = ""
    /\ \E i \in Steps :
          /\ i >= 2
          /\ Len(out.trace[i + 1]) < i
          /\ Remaining(i) = RequiredAt(i)
          /\ ItemsDesc[i + 1] >= 1
          /\ Roomy(i) # {}
          /\ OpensBin(i)

\* iteration i met more items to come than bins to reserve
Unreserved(i) == Remaining(i) > RequiredAt(i)

\* iteration i took the bin at position b off the list and put it back at the
\* end, grown by the item
FillsBin(i, b) ==
    out.trace[i + 2]
        = Append(RemoveAt(out.trace[i + 1], b),
                 out.trace[i + 1][b] + ItemsDesc[i + 1])

\* iteration i took the bin at position b off the list and raised while
\* merging the item into it
RaisedAt(i, b) ==
    /\ out.err # ""
    /\ i = Len(out.trace) - 2
    /\ out.trace[i + 2] = RemoveAt(out.trace[i + 1], b)

\* row a of the batch is processed before row b: it is larger, or as large
\* and earlier in the batch
ProcessedBefore(a, b) ==
    \/ unit.sizes[a] > unit.sizes[b]
    \/ unit.sizes[a] = unit.sizes[b] /\ a < b

\* the rows merged into the example ex come in the order of processing (every
\* token of row j is j)
InOrder(ex) ==
    \A p \in 1..Len(ex.input_ids) : \A q \in (p + 1)..Len(ex.input_ids) :
        ex.input_ids[p] # ex.input_ids[q] =>
            ProcessedBefore(ex.input_ids[p], ex.input_ids[q])

\* C26: first-fit decreasing.  The items are processed in descending order
\* of size, rows of equal size in the order of the batch; an iteration
\* outside the reservation case puts its item into the first bin of the list
\* (in the list's current order) whose size plus the item's is at most
\* max_bin_size, and opens a new bin for the item alone exactly when no bin
\* has room.
C26_FirstFitDecreasing ==
    GeneralPath =>
        /\ \A i \in Steps :
              Unreserved(i) =>
                  /\ OpensBin(i) <=> Roomy(i) = {}
                  /\ Roomy(i) # {} =>
                        \/ FillsBin(i, SetMin(Roomy(i)))
                        \/ RaisedAt(i, SetMin(Roomy(i)))
        /\ (out.err = "" /\ ~unit.is_profiling /\ unit.existing = <<>>) =>
              \A k \in 1..Len(out.bins) : InOrder(out.bins[k].ex)

\* an iteration had two bins with room and filled the first one, which was
\* not the fullest of them
C26_Witness ==
    /\ GeneralPath
    /\ out.err = ""
    /\ \E i \in Steps :
          /\ Unreserved(i)
          /\ \E b \in Roomy(i) :
                out.trace[i + 1][b] > out.trace[i + 1][SetMin(Roomy(i))]
          /\ FillsBin(i, SetMin(Roomy(i)))

\* the sizes of the bins the engine returns, the selected ones first
ReturnedSizes == out.selected_sizes \o BinSizes(out.leftover_bins)

\* C27: output selection.  When the engine returns, the packed examples are
\* the num_bins largest bins of the list (all of them when there are fewer),
\* existing and new alike, in descending order of size; the leftover bins are
\* all the others, in descending order too, none larger than a selected bin;
\* n_packed_tokens is the sum of the selected bins' sizes and n_total_tokens
\* the sum of the sizes of this call's items.
C27_OutputSelection ==
    EngineDone =>
        /\ Len(out.selected_sizes) = Min(unit.num_bins, Len(out.bins))
        /\ Len(out.packed_examples) = Len(out.selected_sizes)
        /\ Descending(ReturnedSizes)
        /\ SameSizes(ReturnedSizes, BinSizes(out.bins))
        /\ \A k \in 1..Len(out.selected_sizes) :
              \E b \in 1..Len(out.bins) :
                  out.bins[b] = [size |-> out.selected_sizes[k],
                                 ex |-> out.packed_examples[k]]
        /\ \A k \in 1..Len(out.leftover_bins) :
              /\ \E b \in 1..Len(out.bins) : out.bins[b] = out.leftover_bins[k]
              /\ \A j \in 1..Len(out.selected_sizes) :
                    out.leftover_bins[k].size <= out.selected_sizes[j]
        /\ out.n_packed_tokens = SumSeq(out.selected_sizes)
        /\ out.n_total_tokens = SumSeq(unit.sizes)

\* the engine was given bins (no two of which would fit into one), sorted a
\* list that was out of order, left bins over and packed more tokens than came
\* in with this call
C27_Witness ==
    /\ EngineDone
    /\ unit.existing # <<>>
    /\ \A a \in 1..Len(unit.existing) : \A b \in (a + 1)..Len(unit.existing) :
          unit.existing[a] + unit.existing[b] > unit.max_bin_size
    /\ ~Descending(BinSizes(out.bins))
    /\ out.leftover_bins # <<>>
    /\ out.n_packed_tokens > out.n_total_tokens
    /\ out.n_total_tokens > 0

\* --------------------------------------- claims: the counters and the bins
\* the tokens of the leftover bins the collator holds
Held == TotalBinSizes(leftover_bins)

SizeIsContent(size, ex) == \A f \in DOMAIN ex : Len(ex[f]) = size

\* the number of examples merged into ex
MergedInto(ex) == IF ex.sequence_id = <<>> THEN 0 ELSE SeqMax(ex.sequence_id) + 1

\* C23: bin size matches bin content.  In Normal mode every leftover bin the
\* collator holds, and every bin the engine selected in the last call (before
\* re-padding), has a size equal to the length of each field of its packed
\* example; a trimmed example brings as many values to each field as its
\* size, so this is also the sum of the sizes of the examples in the bin.
C23_SizeIsContent ==
    ~cfg.is_profiling =>
        /\ \A k \in 1..Len(leftover_bins) :
              SizeIsContent(leftover_bins[k].size, leftover_bins[k].ex)
        /\ EngineReturned =>
              LET packed_examples == SecondRun.packed_examples
              IN  /\ Len(packed_examples) = Len(last.selected_sizes)
                  /\ \A k \in 1..Len(last.selected_sizes) :
                        SizeIsContent(last.selected_sizes[k], packed_examples[k])

\* a Normal-mode collator holds a leftover bin of two merged examples after a
\* call that also selected a bin
C23_Witness ==
    /\ ~cfg.is_profiling
    /\ CallReturned
    /\ last.selected_sizes # <<>>
    /\ \E k \in 1..Len(leftover_bins) :
          /\ MergedInto(leftover_bins[k].ex) = 2
          /\ leftover_bins[k].size = cfg.max_seq_len

\* C28: counter updates per call.  A call that returns adds the engine's
\* n_packed_tokens and n_total_tokens to the counters and target_batch_size
\* to n_packed_examples; after c calls that returned, n_packed_examples is
\* c * target_batch_size; and no call lowers a counter.
C28_CounterUpdates ==
    /\ CallReturned =>
          /\ n_packed_tokens = pre.n_packed_tokens + SumSeq(last.selected_sizes)
          /\ n_total_tokens = pre.n_total_tokens + last.input_sum
          /\ n_packed_examples = pre.n_packed_examples + cfg.out_size
    /\ n_packed_examples = returned * cfg.out_size
    /\ CallFinished =>
          /\ n_packed_tokens >= pre.n_packed_tokens
          /\ n_total_tokens >= pre.n_total_tokens
          /\ n_packed_examples >= pre.n_packed_examples

\* C30: cumulative token accounting.  After any sequence of calls the input
\* tokens that were not packed are those of the leftover bins the collator
\* holds and those of the bins the truncation dropped; so n_packed_tokens
\* never exceeds n_total_tokens, waste lies in [0, 1] once n_total_tokens is
\* positive, and it is 0 exactly when nothing was dropped and nothing is held.
C30_TokenAccounting ==
    /\ n_total_tokens - n_packed_tokens = Held + dropped
    /\ n_packed_tokens <= n_total_tokens
    /\ n_total_tokens > 0 =>
          /\ waste(Snapshot).num >= 0
          /\ waste(Snapshot).num <= waste(Snapshot).den
          /\ waste(Snapshot).num = 0 <=> (dropped = 0 /\ Held = 0)

\* ------------------------------------------------ claims: the reduction
\* worker w has called all_reduce (line 443)
Entered(w) == w \in Procs /\ did[w].all_reduce

\* worker w has come back from all_reduce
Reduced(w) == Entered(w) /\ apc[w] = "returned"

\* worker w sits in all_reduce
Waiting(w) == w \in Procs /\ apc[w] = "all_reduce"

\* no worker is back from the reduction while a worker of the group has not
\* called it
C29_NoEarlyReturn ==
    [](\A w \in Workers : \A v \in Workers :
          (Reduced(w) /\ v \in Procs) => Entered(v))

\* once every worker has called the reduction, every worker comes back from it
C29_AllReturn ==
    (\A v \in Workers : v \in Procs => Entered(v))
        ~> (\A v \in Workers : v \in Procs => Reduced(v))

\* when a worker of the group never calls the reduction, a worker that waits
\* in it waits for ever
C29_BlockedForever ==
    \A u \in Workers : \A v \in Workers :
        [](u \in Procs /\ ~Entered(u)) => [](Waiting(v) => []Waiting(v))

====
